---- MODULE Spec2Model ----
(***************************************************************************)
(* Topology builder of the generic heat pump model (models/heatpump.py):   *)
(* Heatpump.__init__, generate_components, generate_topology, set_conn and *)
(* delete_component.                                                       *)
(*                                                                         *)
(* Strings.  A Python string is modelled as the sequence of its tokens: a  *)
(* token is one decimal digit ("0".."9") or one maximal run of non-digit   *)
(* characters ("Internal Heat Exchanger ", "_", "-", "_to_cc", ...).  The  *)
(* tokenisation of a string is unique, so two Python strings are equal     *)
(* exactly when their token sequences are equal; f-string formatting is    *)
(* concatenation of the literal runs with the decimal digits of the        *)
(* formatted integers.                                                     *)
(***************************************************************************)
EXTENDS Integers, Sequences, FiniteSets, TLC

VARIABLES
    nr_cycles,      \* self.nr_cycles
    int_heatex,     \* self.int_heatex : cycle -> [type, val]
    intercooler,    \* self.intercooler : cycle -> [amount, type]
    components,     \* self.components : key -> Component object
    connections,    \* self.connections : label -> Connection object
    nw,             \* connection objects registered with self.nw
    pc,             \* position of the constructor / life cycle of the object
    todo,           \* the set_conn calls generate_topology has yet to make
    ip,             \* number of set_conn calls generate_topology has made
    ndel            \* number of delete_component calls made so far

vars == <<nr_cycles, int_heatex, intercooler, components, connections, nw,
          pc, todo, ip, ndel>>

----------------------------------------------------------------------------
(* Bounds of the model                                                     *)

MaxCycles == 2       \* nr_cycles ranges over 1..MaxCycles (and BigCycles)
BigCycles == 10      \* one cycle count with two-digit indices
MaxAmount == 2       \* intercooler 'amount' ranges over 1..MaxAmount
MaxDeletes == 2      \* delete_component calls per behaviour
MaxPlainCycles == 5  \* nr_cycles of the builds with both dictionaries empty

----------------------------------------------------------------------------
(* String helpers                                                          *)

Digit(d) == CASE d = 0 -> "0" [] d = 1 -> "1" [] d = 2 -> "2" [] d = 3 -> "3"
              [] d = 4 -> "4" [] d = 5 -> "5" [] d = 6 -> "6" [] d = 7 -> "7"
              [] d = 8 -> "8" [] d = 9 -> "9"

\* str(n) as used by the f-strings, for n >= 0
RECURSIVE Str(_)
Str(n) == IF n < 10 THEN <<Digit(n)>> ELSE Str(n \div 10) \o <<Digit(n % 10)>>

\* ord() of the first character of a token (ASCII): ' ' < '-' < digits < '_'
\* < letters; only tokens that start with one of these are ever compared.
Ord(t) == CASE t = "0" -> 48 [] t = "1" -> 49 [] t = "2" -> 50 [] t = "3" -> 51
            [] t = "4" -> 52 [] t = "5" -> 53 [] t = "6" -> 54 [] t = "7" -> 55
            [] t = "8" -> 56 [] t = "9" -> 57 [] t = "-" -> 45 [] t = "_" -> 95
            [] OTHER -> 73

\* Python's str.__lt__: lexicographic, a proper prefix is smaller
RECURSIVE StrLess(_, _)
StrLess(a, b) ==
    IF a = <<>> THEN b # <<>>
    ELSE IF b = <<>> THEN FALSE
    ELSE IF Head(a) = Head(b) THEN StrLess(Tail(a), Tail(b))
    ELSE Ord(Head(a)) < Ord(Head(b))

\* Python's `needle in hay` for strings.  Every needle used starts with a
\* whole literal run and ends with a digit, so a character-level match is a
\* contiguous match of tokens.
Contains(hay, needle) ==
    \E k \in 0..(Len(hay) - Len(needle)) :
        \A j \in 1..Len(needle) : hay[k + j] = needle[j]

\* the literal runs that end with a blank
EndsWithBlank == {"Internal Heat Exchanger ", "Heat Exchanger ", "Evaporator ",
                  "Cycle Closer ", "Valve ", "Condenser ", "Compressor ",
                  "Intercooler "}

\* s.split(' ')[-1]: what follows the last blank
SplitLast(s) ==
    LET blanks == {k \in 1..Len(s) : s[k] \in EndsWithBlank}
        last == IF blanks = {} THEN 0
                ELSE CHOOSE k \in blanks : \A j \in blanks : j <= k
    IN  SubSeq(s, last + 1, Len(s))

\* list.sort(reverse=True) of a list of distinct strings
RECURSIVE SortReverse(_)
SortReverse(S) ==
    IF S = {} THEN <<>>
    ELSE LET m == CHOOSE x \in S : \A y \in S : y = x \/ StrLess(y, x)
         IN  <<m>> \o SortReverse(S \ {m})

----------------------------------------------------------------------------
(* Component objects and the component table                               *)

\* a tespy component: its class and the label passed to the constructor
Comp(kind, label) == [kind |-> kind, label |-> label]

EmptyTable == [k \in {} |-> k]

\* dict item assignment  d[key] = obj
Put(d, key, obj) == (key :> obj) @@ d

\* labels and keys built by the f-strings of generate_components
CycleCloserLabel(c) == <<"Cycle Closer ">> \o Str(c)
ValveLabel(c) == <<"Valve ">> \o Str(c)
HeatExchangerLabel(a, b) == <<"Heat Exchanger ">> \o Str(a) \o <<"_">> \o Str(b)
CondenserLabel(c) == <<"Condenser ">> \o Str(c)
IntercoolerLabel(c, i) == <<"Intercooler ">> \o Str(c) \o <<"-">> \o Str(i)
CompressorKey(c, i) == <<"Compressor ">> \o Str(c) \o <<"-">> \o Str(i)
CompressorLabel(c, i) == <<"Compressor ">> \o Str(c) \o <<"_">> \o Str(i)
SingleCompressorLabel(c) == <<"Compressor ">> \o Str(c)
IntHeatExLabel(c, t) ==
    <<"Internal Heat Exchanger ">> \o Str(c) \o <<"_">> \o Str(t)

\* the seven components that are always created
FixedComponents ==
    LET named(d, kind, word) == Put(d, <<word>>, Comp(kind, <<word>>))
        d1 == named(EmptyTable, "Source", "Heat Source Feed Flow")
        d2 == named(d1, "Sink", "Heat Source Back Flow")
        d3 == named(d2, "Pump", "Heat Source Recirculation Pump")
        d4 == Put(d3, <<"Evaporator ", "1">>,
                  Comp("HeatExchanger", <<"Evaporator ", "1">>))
        d5 == named(d4, "CycleCloser", "Consumer Cycle Closer")
        d6 == named(d5, "Pump", "Consumer Recirculation Pump")
    IN  named(d6, "HeatExchangerSimple", "Consumer")

\* for i in range(from, nr_intercooler+2): intercoolers and compressors
RECURSIVE CompressionUnits(_, _, _, _, _)
CompressionUnits(d, cycle, i, nr_intercooler, ic_type) ==
    IF i > nr_intercooler + 1 THEN d
    ELSE LET d1 == IF i < nr_intercooler + 1
                       /\ ic_type \in {"HeatExchanger", "HeatExchangerSimple"}
                   THEN Put(d, IntercoolerLabel(cycle, i),
                            Comp(ic_type, IntercoolerLabel(cycle, i)))
                   ELSE d
             d2 == Put(d1, CompressorKey(cycle, i),
                       Comp("Compressor", CompressorLabel(cycle, i)))
         IN  CompressionUnits(d2, cycle, i + 1, nr_intercooler, ic_type)

\* for target_cycle in self.int_heatex[cycle]
RECURSIVE IntHeatExUnits(_, _, _)
IntHeatExUnits(d, cycle, targets) ==
    IF targets = <<>> THEN d
    ELSE LET label == IntHeatExLabel(cycle, Head(targets))
         IN  IntHeatExUnits(Put(d, label, Comp("HeatExchanger", label)),
                            cycle, Tail(targets))

\* CycleComponents with the test  cycle == self.nr_cycles  lost: a condenser
\* in every cycle
CycleComponentsCondenserInEveryCycle(d, cycle) ==
    LET d1 == Put(d, CycleCloserLabel(cycle),
                  Comp("CycleCloser", CycleCloserLabel(cycle)))
        d2 == Put(d1, ValveLabel(cycle), Comp("Valve", ValveLabel(cycle)))
        d3 == IF cycle # 1
              THEN Put(d2, HeatExchangerLabel(cycle - 1, cycle),
                       Comp("HeatExchanger",
                            HeatExchangerLabel(cycle - 1, cycle)))
              ELSE d2
        d4 == Put(d3, CondenserLabel(cycle),
                  Comp("Condenser", CondenserLabel(cycle)))
        d5 == IF cycle \in DOMAIN intercooler
              THEN CompressionUnits(d4, cycle, 1, intercooler[cycle].amount,
                                    intercooler[cycle].type)
              ELSE Put(d4, SingleCompressorLabel(cycle),
                       Comp("Compressor", SingleCompressorLabel(cycle)))
    IN  IF cycle \in DOMAIN int_heatex
        THEN IF int_heatex[cycle].type = "list"
             THEN IntHeatExUnits(d5, cycle, int_heatex[cycle].val)
             ELSE IntHeatExUnits(d5, cycle, <<int_heatex[cycle].val[1]>>)
        ELSE d5

\* the body of  for cycle in range(1, self.nr_cycles+1)  of
\* generate_components
CycleComponents(d, cycle) ==
    LET d1 == Put(d, CycleCloserLabel(cycle),
                  Comp("CycleCloser", CycleCloserLabel(cycle)))
        d2 == Put(d1, ValveLabel(cycle), Comp("Valve", ValveLabel(cycle)))
        d3 == IF cycle # 1
              THEN Put(d2, HeatExchangerLabel(cycle - 1, cycle),
                       Comp("HeatExchanger",
                            HeatExchangerLabel(cycle - 1, cycle)))
              ELSE d2
        d4 == IF cycle = nr_cycles
              THEN Put(d3, CondenserLabel(cycle),
                       Comp("Condenser", CondenserLabel(cycle)))
              ELSE d3
        d5 == IF cycle \in DOMAIN intercooler
              THEN CompressionUnits(d4, cycle, 1, intercooler[cycle].amount,
                                    intercooler[cycle].type)
              ELSE Put(d4, SingleCompressorLabel(cycle),
                       Comp("Compressor", SingleCompressorLabel(cycle)))
    IN  IF cycle \in DOMAIN int_heatex
        THEN IF int_heatex[cycle].type = "list"
             THEN IntHeatExUnits(d5, cycle, int_heatex[cycle].val)
             ELSE IntHeatExUnits(d5, cycle, <<int_heatex[cycle].val[1]>>)
        ELSE d5

RECURSIVE ComponentsUpTo(_)
ComponentsUpTo(cycle) ==
    IF cycle = 0 THEN FixedComponents
    ELSE CycleComponents(ComponentsUpTo(cycle - 1), cycle)

\* the component table generate_components leaves behind
generate_components == ComponentsUpTo(nr_cycles)

----------------------------------------------------------------------------
(* generate_topology: the set_conn calls it makes, in program order        *)

\* the arguments of one set_conn call
Call(label, comp_out, outlet, comp_in, inlet) ==
    [label |-> label, comp_out |-> comp_out, outlet |-> outlet,
     comp_in |-> comp_in, inlet |-> inlet]

Evaporator1 == <<"Evaporator ", "1">>

\* the eight calls made before the loop over the cycles
FixedCalls ==
    << Call(<<"valve", "1", "_to_evaporator", "1">>,
            ValveLabel(1), "out1", Evaporator1, "in2"),
       Call(<<"heatsource_ff_to_heatsource_pump">>,
            <<"Heat Source Feed Flow">>, "out1",
            <<"Heat Source Recirculation Pump">>, "in1"),
       Call(<<"heatsource_pump_to_evaporator", "1">>,
            <<"Heat Source Recirculation Pump">>, "out1", Evaporator1, "in1"),
       Call(<<"evaporator", "1", "_to_heatsource_bf">>,
            Evaporator1, "out1", <<"Heat Source Back Flow">>, "in1"),
       Call(<<"heatsink_cc_to_heatsink_pump">>,
            <<"Consumer Cycle Closer">>, "out1",
            <<"Consumer Recirculation Pump">>, "in1"),
       Call(<<"heatsink_pump_to_cond">> \o Str(nr_cycles),
            <<"Consumer Recirculation Pump">>, "out1",
            CondenserLabel(nr_cycles), "in2"),
       Call(<<"cond">> \o Str(nr_cycles) \o <<"_to_consumer">>,
            CondenserLabel(nr_cycles), "out2", <<"Consumer">>, "in1"),
       Call(<<"consumer_to_heatsink_cc">>,
            <<"Consumer">>, "out1", <<"Consumer Cycle Closer">>, "in1") >>

\* cc -> valve and, above the first cycle, valve -> heat exchanger
HeadCalls(cycle) ==
    << Call(<<"cc">> \o Str(cycle) \o <<"_to_valve">> \o Str(cycle),
            CycleCloserLabel(cycle), "out1", ValveLabel(cycle), "in1") >>
    \o (IF cycle # 1
        THEN << Call(<<"valve">> \o Str(cycle) \o <<"_to_heat_ex">>
                       \o Str(cycle - 1) \o <<"_">> \o Str(cycle),
                     ValveLabel(cycle), "out1",
                     HeatExchangerLabel(cycle - 1, cycle), "in2") >>
        ELSE <<>>)

\* the test without its branch for a list of target cycles
TargetsCycleIntOnly(i, cycle) ==
    /\ i \in DOMAIN int_heatex
    /\ int_heatex[i].type = "int"
    /\ int_heatex[i].val[1] = cycle

\* the test of the loop that fills cycle_int_heatex
TargetsCycle(i, cycle) ==
    /\ i \in DOMAIN int_heatex
    /\ \/ /\ int_heatex[i].type = "int"
          /\ int_heatex[i].val[1] = cycle
       \/ /\ int_heatex[i].type = "list"
          /\ \E j \in 1..Len(int_heatex[i].val) : int_heatex[i].val[j] = cycle

\* cycle_int_heatex: the source cycles i in 1..nr_cycles, in that order
cycle_int_heatex(cycle) ==
    SelectSeq([i \in 1..nr_cycles |-> i], LAMBDA i : TargetsCycle(i, cycle))

\* the outlet that feeds the cold side of a cycle
ColdFeedLabel(cycle) ==
    IF cycle = 1 THEN <<"evaporator">> \o Str(cycle)
    ELSE <<"heatex">> \o Str(cycle - 1) \o <<"_">> \o Str(cycle)

ColdFeedComp(cycle) ==
    IF cycle = 1 THEN Evaporator1 ELSE HeatExchangerLabel(cycle - 1, cycle)

\* for c_int_heatex in cycle_int_heatex: the cold-side chain
ColdChainCalls(cycle) ==
    LET lst == cycle_int_heatex(cycle)
    IN  [j \in 1..Len(lst) |->
            IF j = 1
            THEN Call(ColdFeedLabel(cycle) \o <<"_to_int_heatex">>
                        \o Str(lst[j]) \o <<"_">> \o Str(cycle),
                      ColdFeedComp(cycle), "out2",
                      IntHeatExLabel(lst[j], cycle), "in2")
            ELSE Call(<<"int_heatex">> \o Str(lst[j - 1]) \o <<"_">>
                        \o Str(cycle) \o <<"_to_int_heatex">> \o Str(lst[j])
                        \o <<"_">> \o Str(cycle),
                      IntHeatExLabel(lst[j - 1], cycle), "out2",
                      IntHeatExLabel(lst[j], cycle), "in2")]

\* the call that feeds the (first) compressor of the cycle
CompressorFeedCall(cycle, comp) ==
    LET lst == cycle_int_heatex(cycle)
        last_int_heatex == lst[Len(lst)]
    IN  IF lst = <<>>
        THEN IF cycle = 1
             THEN IF cycle \in DOMAIN intercooler
                  THEN Call(<<"evaporator", "1", "_to_comp">> \o Str(cycle)
                              \o <<"-", "1">>,
                            Evaporator1, "out2", comp, "in1")
                  ELSE Call(<<"evaporator", "1", "_to_comp">> \o Str(cycle),
                            Evaporator1, "out2", comp, "in1")
             ELSE Call(<<"heatex">> \o Str(cycle - 1) \o <<"_">> \o Str(cycle)
                         \o <<"_to_comp">> \o Str(cycle),
                       HeatExchangerLabel(cycle - 1, cycle), "out2",
                       comp, "in1")
        ELSE Call(<<"int_heatex">> \o Str(last_int_heatex) \o <<"_">>
                    \o Str(cycle) \o <<"_to_comp">> \o Str(cycle),
                  IntHeatExLabel(last_int_heatex, cycle), "out2", comp, "in1")

\* the loop over the stages left after its first pass
IntercoolerCallsFirstStageOnly(cycle, i, amount) ==
    IF i > amount THEN <<>>
    ELSE << Call(<<"comp">> \o Str(cycle) \o <<"-">> \o Str(i)
                   \o <<"_to_intercooler">> \o Str(cycle) \o <<"-">> \o Str(i),
                 CompressorKey(cycle, i), "out1",
                 IntercoolerLabel(cycle, i), "in1"),
            Call(<<"intercooler">> \o Str(cycle) \o <<"-">> \o Str(i)
                   \o <<"_to_comp">> \o Str(cycle) \o <<"-">> \o Str(i + 1),
                 IntercoolerLabel(cycle, i), "out1",
                 CompressorKey(cycle, i + 1), "in1") >>

\* for i in range(1, amount+1): compressor -> intercooler -> compressor
RECURSIVE IntercoolerCalls(_, _, _)
IntercoolerCalls(cycle, i, amount) ==
    IF i > amount THEN <<>>
    ELSE << Call(<<"comp">> \o Str(cycle) \o <<"-">> \o Str(i)
                   \o <<"_to_intercooler">> \o Str(cycle) \o <<"-">> \o Str(i),
                 CompressorKey(cycle, i), "out1",
                 IntercoolerLabel(cycle, i), "in1"),
            Call(<<"intercooler">> \o Str(cycle) \o <<"-">> \o Str(i)
                   \o <<"_to_comp">> \o Str(cycle) \o <<"-">> \o Str(i + 1),
                 IntercoolerLabel(cycle, i), "out1",
                 CompressorKey(cycle, i + 1), "in1") >>
         \o IntercoolerCalls(cycle, i + 1, amount)

\* the call that leaves the last compressor of the cycle
DischargeCall(cycle, complabel, comp) ==
    IF cycle = nr_cycles
    THEN Call(complabel \o <<"_to_cond">> \o Str(cycle),
              comp, "out1", CondenserLabel(cycle), "in1")
    ELSE Call(complabel \o <<"_to_heatex">> \o Str(cycle) \o <<"_">>
                \o Str(cycle + 1),
              comp, "out1", HeatExchangerLabel(cycle, cycle + 1), "in1")

\* if cycle in self.intercooler: ... else: ...
CompressionCalls(cycle) ==
    IF cycle \in DOMAIN intercooler
    THEN LET amount == intercooler[cycle].amount
         IN  << CompressorFeedCall(cycle, CompressorKey(cycle, 1)) >>
             \o IntercoolerCalls(cycle, 1, amount)
             \o << DischargeCall(cycle,
                                 <<"comp">> \o Str(cycle) \o <<"-">>
                                   \o Str(amount + 1),
                                 CompressorKey(cycle, amount + 1)) >>
    ELSE << CompressorFeedCall(cycle, SingleCompressorLabel(cycle)),
            DischargeCall(cycle, <<"comp">> \o Str(cycle),
                          SingleCompressorLabel(cycle)) >>

\* int_heatexs: the keys of the component table that contain
\* 'Internal Heat Exchanger {cycle}', sorted in reverse
int_heatexs(d, cycle) ==
    SortReverse({comp \in DOMAIN d :
                    Contains(comp, <<"Internal Heat Exchanger ">> \o Str(cycle))})

\* the outlet that feeds the hot-side return of a cycle
HotFeedLabel(cycle) ==
    IF cycle = nr_cycles THEN <<"cond">> \o Str(cycle)
    ELSE <<"heatex">> \o Str(cycle) \o <<"_">> \o Str(cycle + 1)

HotFeedComp(cycle) ==
    IF cycle = nr_cycles THEN CondenserLabel(cycle)
    ELSE HeatExchangerLabel(cycle, cycle + 1)

\* for int_heatex in int_heatexs, and the final call into the cycle closer
HotChainCalls(d, cycle) ==
    LET lst == int_heatexs(d, cycle)
        n == Len(lst)
    IN  [j \in 1..n |->
            IF j = 1
            THEN Call(HotFeedLabel(cycle) \o <<"_to_int_heatex">>
                        \o SplitLast(lst[j]),
                      HotFeedComp(cycle), "out1", lst[j], "in1")
            ELSE Call(<<"int_heatex">> \o SplitLast(lst[j - 1])
                        \o <<"_to_int_heatex">> \o SplitLast(lst[j]),
                      lst[j - 1], "out1", lst[j], "in1")]
        \o << IF n = 0
              THEN Call(HotFeedLabel(cycle) \o <<"_to_cc">> \o Str(cycle),
                        HotFeedComp(cycle), "out1",
                        CycleCloserLabel(cycle), "in1")
              ELSE Call(<<"int_heatex">> \o SplitLast(lst[n]) \o <<"_to_cc">>
                          \o Str(cycle),
                        lst[n], "out1", CycleCloserLabel(cycle), "in1") >>

\* the body of  for cycle in range(1, self.nr_cycles+1)  of generate_topology
CycleCalls(d, cycle) ==
    HeadCalls(cycle) \o ColdChainCalls(cycle) \o CompressionCalls(cycle)
    \o HotChainCalls(d, cycle)

RECURSIVE CallsUpTo(_, _)
CallsUpTo(d, cycle) ==
    IF cycle = 0 THEN FixedCalls
    ELSE CallsUpTo(d, cycle - 1) \o CycleCalls(d, cycle)

\* every set_conn call of generate_topology over the component table d
generate_topology(d) == CallsUpTo(d, nr_cycles)

----------------------------------------------------------------------------
(* Configurations the constructor is called with                           *)

IntVal(t) == [type |-> "int", val |-> <<t>>]      \* a single integer
ListVal(l) == [type |-> "list", val |-> l]        \* a list of integers

\* int_heatex dictionaries over the given indices with at most two internal
\* heat exchangers: none; one key with an integer, a one-element or a
\* two-element list; two keys, both with an integer or both with a list
IntHeatExMaps(idx) ==
    {EmptyTable}
    \cup {(c :> IntVal(t)) : c \in idx, t \in idx}
    \cup {(c :> ListVal(<<t>>)) : c \in idx, t \in idx}
    \cup UNION {IF t = u THEN {} ELSE {(c :> ListVal(<<t, u>>))} :
                  c \in idx, t \in idx, u \in idx}
    \cup UNION {IF c = e THEN {}
                ELSE {(c :> IntVal(t)) @@ (e :> IntVal(u)),
                      (c :> ListVal(<<t>>)) @@ (e :> ListVal(<<u>>))} :
                  c \in idx, e \in idx, t \in idx, u \in idx}

\* int_heatex dictionaries with at most one internal heat exchanger
SingleIntHeatExMaps(idx) ==
    {EmptyTable}
    \cup {(c :> IntVal(t)) : c \in idx, t \in idx}
    \cup {(c :> ListVal(<<t>>)) : c \in idx, t \in idx}

\* intercooler dictionaries with at most one entry; "Cooler" is a type
\* generate_components knows no component class for
IntercoolerMaps(idx, valid) ==
    {EmptyTable}
    \cup {(c :> [amount |-> a, type |-> ty]) :
            c \in idx, a \in {1, MaxAmount},
            ty \in {"HeatExchanger", "HeatExchangerSimple"}}
    \cup {(c :> [amount |-> 1, type |-> "Cooler"]) : c \in valid}

\* cycle counts of the behaviours that go on to delete components
DeleteCycleCounts == {1, 2}

\* the indices tried for nr_cycles = n: for a small n all of 1..n and the
\* first index out of range, for BigCycles a one-digit and the two-digit ones
Indices(n) == IF n <= MaxCycles THEN 1..(n + 1) ELSE {1, 2, n}

----------------------------------------------------------------------------
(* The object                                                              *)

\* a tespy Connection: the two component objects, the two ports, the label;
\* id stands for the identity of the Python object
Connection(source, outlet, target, inlet, label, id) ==
    [source |-> source, outlet |-> outlet, target |-> target,
     inlet |-> inlet, label |-> label, id |-> id]

\* Heatpump.__init__ up to  self.components = dict()
InitWith(n, ihx, ic) ==
    /\ nr_cycles = n
    /\ int_heatex = ihx
    /\ intercooler = ic
    /\ components = EmptyTable
    /\ connections = EmptyTable
    /\ nw = {}
    /\ pc = "components"
    /\ todo = <<>>
    /\ ip = 0
    /\ ndel = 0

\* builds of every configuration, indices out of range included
InitBuild ==
    \E n \in (1..MaxCycles) \cup {BigCycles} :
        \E ihx \in IntHeatExMaps(Indices(n)) :
            \E ic \in IF n <= MaxCycles
                      THEN IntercoolerMaps(Indices(n), 1..n)
                      ELSE {EmptyTable,
                            (1 :> [amount |-> 1, type |-> "HeatExchanger"])} :
                InitWith(n, ihx, ic)

\* builds that are followed by delete_component calls
Init ==
    \E n \in DeleteCycleCounts :
        \E ihx \in SingleIntHeatExMaps(1..n) :
            \E ic \in IntercoolerMaps(1..n, 1..n) :
                InitWith(n, ihx, ic)

\* builds without internal heat exchangers and intercoolers
InitPlain ==
    \E n \in 1..MaxPlainCycles : InitWith(n, EmptyTable, EmptyTable)

\* self.generate_components(); generate_topology, which runs next, reads
\* the component table it leaves behind and nothing that changes later, so
\* the calls it is going to make are fixed from here on
GenerateComponents ==
    /\ pc = "components"
    /\ components' = generate_components
    /\ todo' = generate_topology(components')
    /\ pc' = "topology"
    /\ UNCHANGED <<nr_cycles, int_heatex, intercooler, connections, nw, ip,
                   ndel>>

\* what set_conn stores in self.connections
set_conn(conns, call, id) ==
    Put(conns, call.label,
        Connection(components[call.comp_out], call.outlet,
                   components[call.comp_in], call.inlet, call.label, id))

\* self.nw.add_conns(connection): the network keeps the object; what else
\* the tespy Network does with it is outside this class
add_conns(net, conn) == net \cup {conn}

\* self.components[comp_out] and self.components[comp_in] are found
Known(call) ==
    /\ call.comp_out \in DOMAIN components
    /\ call.comp_in \in DOMAIN components

\* one set_conn call of generate_topology; __init__ returns after the last
SetConn ==
    /\ pc = "topology"
    /\ Known(Head(todo))
    /\ connections' = set_conn(connections, Head(todo), ip + 1)
    /\ nw' = add_conns(nw, connections'[Head(todo).label])
    /\ todo' = Tail(todo)
    /\ ip' = ip + 1
    /\ pc' = IF todo' = <<>> THEN "done" ELSE "topology"
    /\ UNCHANGED <<nr_cycles, int_heatex, intercooler, components, ndel>>

\* self.components[comp_out] or self.components[comp_in] raises KeyError:
\* the exception leaves generate_topology and __init__
SetConnKeyError ==
    /\ pc = "topology"
    /\ ~Known(Head(todo))
    /\ pc' = "error"
    /\ UNCHANGED <<nr_cycles, int_heatex, intercooler, components,
                   connections, nw, todo, ip, ndel>>

\* the labels of the connections the loop of delete_component removes
Incident(conns, component) ==
    {label \in DOMAIN conns :
        \/ component = conns[label].source.label
        \/ component = conns[label].target.label}

\* delete_component without its test for a missing label
delete_component_unchecked(comps, conns, net, component) ==
    LET gone == Incident(conns, component)
    IN  [components |-> [k \in DOMAIN comps \ {component} |-> comps[k]],
         connections |-> [l \in DOMAIN conns \ gone |-> conns[l]],
         nw |-> net \ {conns[l] : l \in gone}]

\* delete_component without  del self.components[component]
delete_component_keeps(comps, conns, net, component) ==
    IF component \notin DOMAIN comps
    THEN [components |-> comps, connections |-> conns, nw |-> net]
    ELSE LET gone == Incident(conns, component)
         IN  [components |-> comps,
              connections |-> [l \in DOMAIN conns \ gone |-> conns[l]],
              nw |-> net \ {conns[l] : l \in gone}]

\* delete_component deleting from self.connections itself instead of from
\* connections_copy: the dict changes size inside its own loop, which ends
\* with a RuntimeError after the first connection (the earliest made) is gone
delete_component_no_copy(comps, conns, net, component) ==
    IF component \notin DOMAIN comps
    THEN [components |-> comps, connections |-> conns, nw |-> net]
    ELSE LET inc == Incident(conns, component)
             gone == {l \in inc : \A m \in inc : conns[l].id <= conns[m].id}
         IN  [components |-> [k \in DOMAIN comps \ {component} |-> comps[k]],
              connections |-> [l \in DOMAIN conns \ gone |-> conns[l]],
              nw |-> net \ {conns[l] : l \in gone}]

\* the tables and the network after delete_component(component)
delete_component(comps, conns, net, component) ==
    IF component \notin DOMAIN comps
    THEN [components |-> comps, connections |-> conns, nw |-> net]
    ELSE LET gone == Incident(conns, component)
         IN  [components |-> [k \in DOMAIN comps \ {component} |-> comps[k]],
              connections |-> [l \in DOMAIN conns \ gone |-> conns[l]],
              \* self.nw.del_conns(connection) for each of them
              nw |-> net \ {conns[l] : l \in gone}]

\* the labels delete_component is called with: every key of the component
\* table, every label of a component it holds, and a label of no component
\* (a key that was deleted before is, like it, no key of the table)
DeleteLabels ==
    DOMAIN components
    \cup {components[k].label : k \in DOMAIN components}
    \cup {<<"Turbine">>}

\* delete_component(component) on the finished heat pump
DeleteComponent(component) ==
    /\ pc = "done"
    /\ ndel < MaxDeletes
    /\ LET r == delete_component(components, connections, nw, component)
       IN  /\ components' = r.components
           /\ connections' = r.connections
           /\ nw' = r.nw
    /\ ndel' = ndel + 1
    /\ UNCHANGED <<nr_cycles, int_heatex, intercooler, pc, todo, ip>>

Build == GenerateComponents \/ SetConn \/ SetConnKeyError

Next == Build \/ \E component \in DeleteLabels : DeleteComponent(component)

Spec == Init /\ [][Next]_vars

SpecBuild == InitBuild /\ [][Build]_vars

SpecPlain == InitPlain /\ [][GenerateComponents \/ SetConn]_vars

----------------------------------------------------------------------------
(* Properties                                                              *)

\* the values of an int_heatex entry
Targets(c) == {int_heatex[c].val[j] : j \in 1..Len(int_heatex[c].val)}

\* every cycle index of the configuration lies in 1..nr_cycles
InRange ==
    /\ DOMAIN int_heatex \subseteq 1..nr_cycles
    /\ DOMAIN intercooler \subseteq 1..nr_cycles
    /\ \A c \in DOMAIN int_heatex : Targets(c) \subseteq 1..nr_cycles

\* the construction has returned and nothing has been deleted yet
Built == pc = "done" /\ ndel = 0

\* the connection objects held by the connection table
TableConns == {connections[l] : l \in DOMAIN connections}

\* C1: during generate_topology, with every index in 1..nr_cycles, the label
\* of the set_conn call that comes next is not yet a key of the connection
\* table, so that no wiring step reuses the label of an earlier one.
C1_LabelsUnique ==
    (pc = "topology" /\ InRange) => Head(todo).label \notin DOMAIN connections

\* C2: after the build, with every index in 1..nr_cycles, no two of the
\* connections the wiring steps created leave the same outlet of the same
\* component or enter the same inlet of the same component.
C2_PortsUnique ==
    (Built /\ InRange) =>
        \A c \in nw : \A e \in nw :
            c # e => /\ <<c.source, c.outlet>> # <<e.source, e.outlet>>
                     /\ <<c.target, c.inlet>> # <<e.target, e.inlet>>

\* the component objects held by the component table
TableComps == {components[k] : k \in DOMAIN components}

\* C3: after the build and after any delete_component calls, the source and
\* the target component of every connection of the connection table are
\* still held by the component table.
C3_NoDanglingAfterDelete ==
    pc = "done" =>
        \A l \in DOMAIN connections :
            /\ connections[l].source \in TableComps
            /\ connections[l].target \in TableComps

\* C4: after a completed build, the label of the source component and the
\* label of the target component of every connection are keys of the
\* component table.
C4_EndpointLabelsAreKeys ==
    Built =>
        \A l \in DOMAIN connections :
            /\ connections[l].source.label \in DOMAIN components
            /\ connections[l].target.label \in DOMAIN components

\* C5: a delete_component call with a label that is no key of the component
\* table changes neither the component table, nor the connection table, nor
\* the connections registered with the network.
C5_DeleteMissingIsNoOp ==
    [][\A x \in DeleteLabels :
          (DeleteComponent(x) /\ x \notin DOMAIN components)
              => UNCHANGED <<components, connections, nw>>]_vars

\* C5 witness: a delete_component call has returned and the component table
\* still has every key it was built with
C5_Witness ==
    /\ pc = "done"
    /\ ndel = 1
    /\ DOMAIN components = DOMAIN generate_components
    /\ intercooler # EmptyTable

\* C6: a delete_component call with an existing label removes that one key
\* from the component table and keeps every other entry as it was; every
\* connection whose source and target are both other components keeps its
\* label and its value, and no label is added to the connection table.
C6_DeleteFrame ==
    [][\A x \in DeleteLabels :
          (DeleteComponent(x) /\ x \in DOMAIN components) =>
              /\ DOMAIN components' = DOMAIN components \ {x}
              /\ \A k \in DOMAIN components' : components'[k] = components[k]
              /\ DOMAIN connections' \subseteq DOMAIN connections
              /\ \A l \in DOMAIN connections :
                    (/\ connections[l].source # components[x]
                     /\ connections[l].target # components[x])
                        => /\ l \in DOMAIN connections'
                           /\ connections'[l] = connections[l]]_vars

\* C6 witness: one component has been deleted and connections went with it
C6_Witness ==
    /\ pc = "done"
    /\ ndel = 1
    /\ Cardinality(DOMAIN components)
         = Cardinality(DOMAIN generate_components) - 1
    /\ Cardinality(DOMAIN connections) = ip - 2

\* C7 as stated: without intercoolers and internal heat exchangers a build
\* makes 4 * nr_cycles + 7 components and one connection more than that.
C7_OneMoreConnection ==
    (Built /\ int_heatex = EmptyTable /\ intercooler = EmptyTable) =>
        /\ Cardinality(DOMAIN components) = 4 * nr_cycles + 7
        /\ Cardinality(DOMAIN connections)
             = Cardinality(DOMAIN components) + 1

\* C7 amended: without intercoolers and internal heat exchangers a build
\* makes 4 * nr_cycles + 7 components and 5 * nr_cycles + 7 connections,
\* that is nr_cycles connections more than components.
C7_Cardinality ==
    (Built /\ int_heatex = EmptyTable /\ intercooler = EmptyTable) =>
        /\ Cardinality(DOMAIN components) = 4 * nr_cycles + 7
        /\ Cardinality(DOMAIN connections) = 5 * nr_cycles + 7
        /\ Cardinality(DOMAIN connections)
             = Cardinality(DOMAIN components) + nr_cycles

\* C7 witness: a finished build of three plain cycles
C7_Witness ==
    /\ Built
    /\ nr_cycles = 3
    /\ int_heatex = EmptyTable
    /\ intercooler = EmptyTable
    /\ Cardinality(DOMAIN connections) = 22

\* C8: with a cycle index outside 1..nr_cycles in int_heatex or intercooler
\* the build fails before any component is created: it never completes and
\* both tables stay empty.
C8_OutOfRangeFailsFast ==
    ~InRange => /\ pc \in {"components", "error"}
                /\ components = EmptyTable
                /\ connections = EmptyTable

\* a connection of the table already uses the outlet or the inlet of the call
PortUsed(call) ==
    \E l \in DOMAIN connections :
        \/ /\ call.comp_out \in DOMAIN components
           /\ connections[l].source = components[call.comp_out]
           /\ connections[l].outlet = call.outlet
        \/ /\ call.comp_in \in DOMAIN components
           /\ connections[l].target = components[call.comp_in]
           /\ connections[l].inlet = call.inlet

\* C9: a wiring step whose label is already a key of the connection table,
\* or whose outlet or inlet is already used by a connection, or that names
\* a component the component table does not hold, ends in an error and
\* leaves the connection table as it was.
C9_SetConnRejects ==
    [][(/\ pc = "topology"
        /\ \/ Head(todo).label \in DOMAIN connections
           \/ PortUsed(Head(todo))
           \/ ~Known(Head(todo)))
          => (connections' = connections /\ pc' = "error")]_vars

\* C10: after the build and after any delete_component calls, the
\* connections registered with the network are exactly the connections of
\* the connection table.
C10_NetworkMirrorsTable ==
    pc = "done" => nw = TableConns

\* the endpoints of the connections the wiring steps created
Links == {<<x.source.label, x.outlet, x.target.label, x.inlet>> : x \in nw}

\* the targets listed for source cycle c
TargetsOf(c) == IF c \in DOMAIN int_heatex THEN Targets(c) ELSE {}

\* the members of a set of numbers, highest first
RECURSIVE Descending(_)
Descending(S) ==
    IF S = {} THEN <<>>
    ELSE LET m == CHOOSE x \in S : \A y \in S : y <= x
         IN  <<m>> \o Descending(S \ {m})

\* the hot-side return of cycle c as the claim describes it
ExpectedHotLinks(c) ==
    LET u == Descending(TargetsOf(c))
        n == Len(u)
    IN  IF n = 0
        THEN {<<HotFeedComp(c), "out1", CycleCloserLabel(c), "in1">>}
        ELSE {<<HotFeedComp(c), "out1", IntHeatExLabel(c, u[1]), "in1">>}
             \cup {<<IntHeatExLabel(c, u[j]), "out1",
                     IntHeatExLabel(c, u[j + 1]), "in1">> : j \in 1..(n - 1)}
             \cup {<<IntHeatExLabel(c, u[n]), "out1",
                     CycleCloserLabel(c), "in1">>}

\* the connections that leave the hot feed of cycle c, enter its cycle
\* closer, or use the hot side of one of its internal heat exchangers
HotLinks(c) ==
    {l \in Links :
        \/ l[1] = HotFeedComp(c) /\ l[2] = "out1"
        \/ l[3] = CycleCloserLabel(c) /\ l[4] = "in1"
        \/ \E t \in 1..nr_cycles :
              \/ l[1] = IntHeatExLabel(c, t) /\ l[2] = "out1"
              \/ l[3] = IntHeatExLabel(c, t) /\ l[4] = "in1"}

\* C12: after a build with every index in 1..nr_cycles, the hot-side return
\* of every cycle c runs from the condenser (last cycle) or the heat
\* exchanger above c through exactly the internal heat exchangers of source
\* cycle c, highest target number first, into the cycle closer of c; without
\* such a unit it runs into the cycle closer directly.
C12_HotChainDescending ==
    (Built /\ InRange) =>
        \A c \in 1..nr_cycles : HotLinks(c) = ExpectedHotLinks(c)

\* the source cycles whose int_heatex entry equals or contains cycle c
SourcesOf(c) == {s \in DOMAIN int_heatex \cap 1..nr_cycles : c \in Targets(s)}

\* the members of a set of numbers, lowest first
RECURSIVE Ascending(_)
Ascending(S) ==
    IF S = {} THEN <<>>
    ELSE LET m == CHOOSE x \in S : \A y \in S : x <= y
         IN  <<m>> \o Ascending(S \ {m})

\* the label of the compressor of cycle c that the cold side feeds
FirstCompressor(c) ==
    IF c \in DOMAIN intercooler THEN components[CompressorKey(c, 1)].label
    ELSE SingleCompressorLabel(c)

\* the cold side of cycle c as the claim describes it
ExpectedColdLinks(c) ==
    LET u == Ascending(SourcesOf(c))
        n == Len(u)
    IN  IF n = 0
        THEN {<<ColdFeedComp(c), "out2", FirstCompressor(c), "in1">>}
        ELSE {<<ColdFeedComp(c), "out2", IntHeatExLabel(u[1], c), "in2">>}
             \cup {<<IntHeatExLabel(u[j], c), "out2",
                     IntHeatExLabel(u[j + 1], c), "in2">> : j \in 1..(n - 1)}
             \cup {<<IntHeatExLabel(u[n], c), "out2",
                     FirstCompressor(c), "in1">>}

\* the connections that leave the cold feed of cycle c, enter its first
\* compressor, or use the cold side of an internal heat exchanger that
\* targets c
ColdLinks(c) ==
    {l \in Links :
        \/ l[1] = ColdFeedComp(c) /\ l[2] = "out2"
        \/ l[3] = FirstCompressor(c) /\ l[4] = "in1"
        \/ \E s \in 1..nr_cycles :
              \/ l[1] = IntHeatExLabel(s, c) /\ l[2] = "out2"
              \/ l[3] = IntHeatExLabel(s, c) /\ l[4] = "in2"}

\* C13: after a build with every index in 1..nr_cycles, the cold side of
\* every cycle c runs from the evaporator (first cycle) or the heat
\* exchanger below c through exactly the internal heat exchangers (s, c) of
\* the source cycles s whose entry equals or contains c, lowest s first,
\* into the first compressor of c; without such a unit it runs into that
\* compressor directly.
C13_ColdChainAscending ==
    (Built /\ InRange) =>
        \A c \in 1..nr_cycles : ColdLinks(c) = ExpectedColdLinks(c)

\* C13 witness: a finished build in which the cold side of one cycle passes
\* the unit of source cycle 1 and then the unit of source cycle 2
C13_Witness ==
    /\ Built
    /\ InRange
    /\ \E c \in 1..nr_cycles :
          /\ SourcesOf(c) = {1, 2}
          /\ <<IntHeatExLabel(1, c), "out2", IntHeatExLabel(2, c), "in2">>
               \in Links

\* the number of intercooler stages of cycle c
Stages(c) == IF c \in DOMAIN intercooler THEN intercooler[c].amount ELSE 0

\* the keys under which the compressors of cycle c are expected
CompressorKeys(c) ==
    IF c \in DOMAIN intercooler
    THEN {CompressorKey(c, i) : i \in 1..(Stages(c) + 1)}
    ELSE {SingleCompressorLabel(c)}

\* the label of the i-th compressor of cycle c in the component table
CompressorOf(c, i) ==
    IF c \in DOMAIN intercooler THEN components[CompressorKey(c, i)].label
    ELSE SingleCompressorLabel(c)

\* where the last compressor of cycle c discharges to
DischargeComp(c) ==
    IF c = nr_cycles THEN CondenserLabel(c) ELSE HeatExchangerLabel(c, c + 1)

\* the compression stage of cycle c as the claim describes it
ExpectedStageLinks(c) ==
    {<<CompressorOf(c, i), "out1", IntercoolerLabel(c, i), "in1">> :
        i \in 1..Stages(c)}
    \cup {<<IntercoolerLabel(c, i), "out1", CompressorOf(c, i + 1), "in1">> :
            i \in 1..Stages(c)}
    \cup {<<CompressorOf(c, Stages(c) + 1), "out1", DischargeComp(c), "in1">>}

\* the connections that leave a compressor of cycle c, enter one of its
\* compressors after the first, enter its discharge point, or use in1 or
\* out1 of one of its intercoolers
StageLinks(c) ==
    {l \in Links :
        \/ /\ l[2] = "out1"
           /\ \E i \in 1..(Stages(c) + 1) : l[1] = CompressorOf(c, i)
        \/ /\ l[4] = "in1"
           /\ \/ \E i \in 2..(Stages(c) + 1) : l[3] = CompressorOf(c, i)
              \/ l[3] = DischargeComp(c)
        \/ \E i \in 1..Stages(c) :
              \/ l[1] = IntercoolerLabel(c, i) /\ l[2] = "out1"
              \/ l[3] = IntercoolerLabel(c, i) /\ l[4] = "in1"}

\* C14: after a build, the compressors in the component table are, for
\* every cycle with k >= 1 intercooler stages, the k + 1 compressors 1..k+1
\* and, for every other cycle, its one compressor; the intercoolers are the
\* k intercoolers 1..k of the cycles with stages; and in every cycle
\* compressor i feeds intercooler i and intercooler i feeds compressor i + 1
\* for every stage i, the last (or only) compressor feeds the condenser in
\* the last cycle and the heat exchanger above the cycle otherwise, and no
\* other connection uses these ports.
C14_IntercoolingExpansion ==
    Built =>
        /\ {k \in DOMAIN components : components[k].kind = "Compressor"}
             = UNION {CompressorKeys(c) : c \in 1..nr_cycles}
        /\ {k \in DOMAIN components : k[1] = "Intercooler "}
             = UNION {{IntercoolerLabel(c, i) : i \in 1..Stages(c)} :
                        c \in 1..nr_cycles}
        /\ \A c \in 1..nr_cycles :
              /\ Cardinality(CompressorKeys(c)) = Stages(c) + 1
              /\ Cardinality({CompressorOf(c, i) : i \in 1..(Stages(c) + 1)})
                   = Stages(c) + 1
              /\ StageLinks(c) = ExpectedStageLinks(c)

\* C14 witness: a finished build with a cycle of two intercooler stages,
\* whose second intercooler feeds the third compressor
C14_Witness ==
    /\ Built
    /\ \E c \in 1..nr_cycles :
          /\ Stages(c) = 2
          /\ <<IntercoolerLabel(c, 2), "out1", CompressorOf(c, 3), "in1">>
               \in Links
          /\ <<CompressorOf(c, 3), "out1", DischargeComp(c), "in1">> \in Links

\* the labels of the table's connections that end at a port of a component
EndingAt(comp, inlet) ==
    {l \in DOMAIN connections :
        connections[l].target = comp /\ connections[l].inlet = inlet}

\* the labels of the table's connections that start at a port of a component
StartingAt(comp, outlet) ==
    {l \in DOMAIN connections :
        connections[l].source = comp /\ connections[l].outlet = outlet}

\* C15: after a build with every index in 1..nr_cycles, for every internal
\* heat exchanger (s, t) the connection table holds exactly one connection
\* that ends at its in2, one that starts at its out2, one that ends at its
\* in1 and one that starts at its out1.
C15_SplicedIntoBothChains ==
    (Built /\ InRange) =>
        \A s \in 1..nr_cycles : \A t \in TargetsOf(s) :
            LET unit == components[IntHeatExLabel(s, t)]
            IN  /\ Cardinality(EndingAt(unit, "in2")) = 1
                /\ Cardinality(StartingAt(unit, "out2")) = 1
                /\ Cardinality(EndingAt(unit, "in1")) = 1
                /\ Cardinality(StartingAt(unit, "out1")) = 1

\* C16: at every point of the build and after any delete_component calls,
\* every key of the component table equals the label of the component
\* stored under it.
C16_KeyIsLabel == \A k \in DOMAIN components : components[k].label = k

\* the outlet on the same side of a component as an inlet
SameSide(inlet) == IF inlet = "in1" THEN "out1" ELSE "out2"

\* following the connection table from an outlet, through each reached
\* component on the side it was entered, leads into in1 of the goal within
\* the given number of connections
RECURSIVE Leads(_, _, _, _)
Leads(comp, outlet, goal, fuel) ==
    /\ fuel > 0
    /\ \E l \in StartingAt(comp, outlet) :
          LET x == connections[l]
          IN  \/ x.target = goal /\ x.inlet = "in1"
              \/ Leads(x.target, SameSide(x.inlet), goal, fuel - 1)

\* C17: after a build with every index in 1..nr_cycles, in every cycle c the
\* connection table leads from out1 of the cycle closer of c, through each
\* component on the side it is entered, back into in1 of that cycle closer.
C17_LoopClosed ==
    (Built /\ InRange) =>
        \A c \in 1..nr_cycles :
            Leads(components[CycleCloserLabel(c)], "out1",
                  components[CycleCloserLabel(c)],
                  Cardinality(DOMAIN connections))

\* the tables after one more delete_component call
Then(r, y) == delete_component(r.components, r.connections, r.nw, y)

\* two results of delete_component with the same component table and the
\* same connection table
SameTables(r, q) ==
    r.components = q.components /\ r.connections = q.connections

\* C18: on the finished heat pump, as built or after one earlier deletion,
\* calling delete_component with a label twice leaves the component table
\* and the connection table as calling it once does, and calling it with two
\* labels leaves the same tables in either order.
C18_DeleteIdempotentCommutative ==
    (pc = "done" /\ ndel <= 1) =>
        LET once == [x \in DeleteLabels |->
                        delete_component(components, connections, nw, x)]
        IN  \A x \in DeleteLabels :
                /\ SameTables(Then(once[x], x), once[x])
                /\ \A y \in DeleteLabels :
                      SameTables(Then(once[x], y), Then(once[y], x))

\* C18 witness: the cycle closer and the valve of cycle 1, which one
\* connection joins, were deleted one after the other, and their three
\* connections went with them
C18_Witness ==
    /\ pc = "done"
    /\ ndel = 2
    /\ DOMAIN components
         = DOMAIN generate_components \ {CycleCloserLabel(1), ValveLabel(1)}
    /\ Cardinality(DOMAIN connections) = ip - 3

====
